---- MODULE Spec2Model ----
(***************************************************************************)
(* The guns-and-butter pipeline: three sparse annual series per country    *)
(* (military, education, health) are aligned on the union of their years,  *)
(* Butter and G/B Ratio are derived, gaps are interpolated, the frame is   *)
(* cut to a year window and folded into one long table across countries.   *)
(*                                                                         *)
(* Three scripts carry the pipeline:                                       *)
(*   "app"      guns_app.py               build_country_metrics            *)
(*   "plus"     guns_butter_plus.py       build_metrics                    *)
(*   "nextgen"  guns_butter_plus_nextgen.py  build_metrics (with Source)   *)
(***************************************************************************)
EXTENDS Integers, Sequences, FiniteSets, TLC

(***************************************************************************)
(* Bounds of the model.                                                    *)
(***************************************************************************)
\* Number of consecutive years the statistics provider can answer for.
NumYears == 3

\* First of those years (the slider's default lower year).
YearBase == 2000

Years == YearBase .. (YearBase + NumYears - 1)

(***************************************************************************)
(* float64 values.  A value is a pair <<n, d>>: a non-negative fraction    *)
(* n/d in lowest terms when d > 0, not-a-number when <<0, 0>>, +infinity   *)
(* when <<1, 0>>.  Expenditure shares are non-negative, so no negative     *)
(* value and no -infinity arises.                                          *)
(***************************************************************************)
NaN == <<0, 0>>

Inf == <<1, 0>>

RECURSIVE GCD(_, _)
GCD(a, b) == IF b = 0 THEN a ELSE GCD(b, a % b)

Frac(n, d) == LET g == GCD(n, d) IN <<n \div g, d \div g>>

Num(k) == <<k, 1>>

isna(v) == v = NaN

notna(v) == v # NaN

\* Series + Series, element by element.
fadd(a, b) ==
    IF isna(a) \/ isna(b) THEN NaN
    ELSE IF a = Inf \/ b = Inf THEN Inf
    ELSE Frac(a[1] * b[2] + b[1] * a[2], a[2] * b[2])

\* Series / Series, element by element: float division never raises;
\* x/0 is +infinity for x > 0 and not-a-number for x = 0.
fdiv(a, b) ==
    IF isna(a) \/ isna(b) THEN NaN
    ELSE IF a = Inf THEN (IF b = Inf THEN NaN ELSE Inf)
    ELSE IF b = Inf THEN Num(0)
    ELSE IF b[1] = 0 THEN (IF a[1] = 0 THEN NaN ELSE Inf)
    ELSE Frac(a[1] * b[2], a[2] * b[1])

\* The point k steps out of n on the line from a to b (method "linear":
\* rows are equally spaced, the index values are ignored).
lerp(a, b, k, n) ==
    IF a = Inf \/ b = Inf THEN Inf
    ELSE Frac(a[1] * b[2] * (n - k) + b[1] * a[2] * k, a[2] * b[2] * n)

Max(S) == CHOOSE x \in S : \A y \in S : y <= x

Min(S) == CHOOSE x \in S : \A y \in S : x <= y

(***************************************************************************)
(* Series.interpolate on one column (a sequence of values by row).         *)
(* inside = TRUE  is limit_area="inside", limit_direction="both";          *)
(* inside = FALSE is limit_direction="both" alone, which also fills the    *)
(* rows before the first and after the last valid row with the nearest     *)
(* valid value.  A column with no valid row is returned as it is.          *)
(***************************************************************************)
interpolate_col(col, inside) ==
    LET valid == {j \in 1..Len(col) : notna(col[j])}
    IN  [i \in 1..Len(col) |->
            IF notna(col[i]) \/ valid = {} THEN col[i]
            ELSE LET before == {j \in valid : j < i}
                     after  == {j \in valid : j > i}
                 IN  IF before # {} /\ after # {}
                        THEN lerp(col[Max(before)], col[Min(after)],
                                  i - Max(before), Min(after) - Max(before))
                     ELSE IF inside THEN NaN
                     ELSE IF before = {} THEN col[Min(after)]
                     ELSE col[Max(before)]]

(***************************************************************************)
(* The provider's answer to one request, res: res.len is len(res), and     *)
(* res.data is res[1] as a mapping year -> value, where NaN stands for a   *)
(* JSON null.  The provider lists every year once.                         *)
(***************************************************************************)
ErrorResponse == [len |-> 1, data |-> << >>]

Response(f) == [len |-> 2, data |-> f]

\* get_indicator_data: the non-null observations, indexed by year.  An
\* answer with fewer than two parts gives the empty frame.
get_indicator_data(res) ==
    IF res.len < 2 THEN << >>
    ELSE [y \in {z \in DOMAIN res.data : notna(res.data[z])} |-> res.data[y]]

\* DataFrame.empty
empty(series) == DOMAIN series = {}

\* The elements of a set of years in ascending order.
SortedSeq(S) ==
    IF S = {} THEN << >>
    ELSE LET lo == Min(S)
             member(y) == y \in S
         IN  SelectSeq([k \in 1..(Max(S) - lo + 1) |-> lo + k - 1], member)

(***************************************************************************)
(* Frames.  A frame holds its year index (a sequence) and, per column, the *)
(* sequence of that column's values by row.                                *)
(***************************************************************************)
NumericCols == {"Military", "Education", "Health", "Butter", "G/B Ratio"}

None == [kind |-> "None", index |-> << >>,
         cols |-> [c \in NumericCols |-> << >>], Source |-> << >>]

\* The value a script without a Source column carries in its place.
NoSource == "-"

\* A variant of all_years that keeps only the years all three series share.
all_years_shared(mil, edu, hlth) ==
    SortedSeq(DOMAIN mil \cap DOMAIN edu \cap DOMAIN hlth)

\* mil.index.union(edu.index).union(hlth.index), then sort_index.
all_years(mil, edu, hlth) ==
    SortedSeq(DOMAIN mil \cup DOMAIN edu \cup DOMAIN hlth)

\* df[col] = series["value"]: aligned on the frame's index, NaN where the
\* series has no such year.
assign(index, series) ==
    [i \in 1..Len(index) |->
        IF index[i] \in DOMAIN series THEN series[index[i]] ELSE NaN]

\* The frame before interpolation: the three aligned columns, Butter and
\* G/B Ratio computed from them, every row tagged `tag`.
aligned_frame(mil, edu, hlth, tag) ==
    LET index == all_years(mil, edu, hlth)
        M == assign(index, mil)
        E == assign(index, edu)
        H == assign(index, hlth)
        B == [i \in 1..Len(index) |-> fadd(E[i], H[i])]
        R == [i \in 1..Len(index) |-> fdiv(M[i], B[i])]
    IN  [kind |-> "DataFrame", index |-> index,
         cols |-> [c \in NumericCols |->
                     CASE c = "Military"  -> M
                       [] c = "Education" -> E
                       [] c = "Health"    -> H
                       [] c = "Butter"    -> B
                       [] c = "G/B Ratio" -> R],
         Source |-> [i \in 1..Len(index) |-> tag]]

\* DataFrame.interpolate: every numeric column on its own; the Source
\* column is not numeric and is left as it is (as in the pandas releases
\* that accept a frame with an object column here).
interpolate(df, inside) ==
    [df EXCEPT !.cols = [c \in NumericCols |-> interpolate_col(df.cols[c], inside)]]

\* A variant of TaggedCols that looks at the three fetched columns only.
TaggedColsFetched == {"Military", "Education", "Health"}

\* The columns whose filling marks a row "Interpolated".
TaggedCols == {"Military", "Education", "Health", "Butter", "G/B Ratio"}

\* A variant of tag_source that leaves every row as it was tagged.
tag_source_none(df, df_interpolated) == df_interpolated

\* mask = df[col].isna() & df_interpolated[col].notna(), for each column;
\* df_interpolated.loc[mask, "Source"] = "Interpolated".
tag_source(df, df_interpolated) ==
    [df_interpolated EXCEPT !.Source =
        [i \in 1..Len(df.index) |->
            IF \E c \in TaggedCols :
                  isna(df.cols[c][i]) /\ notna(df_interpolated.cols[c][i])
            THEN "Interpolated" ELSE df_interpolated.Source[i]]]

\* A variant of no_coverage that gives up only when all three are empty.
no_coverage_all(mil, edu, hlth) == empty(mil) /\ empty(edu) /\ empty(hlth)

\* The all-or-nothing coverage test.
no_coverage(mil, edu, hlth) == empty(mil) \/ empty(edu) \/ empty(hlth)

\* A variant of build_metrics that interpolates whatever the checkbox says.
build_metrics_always(data, allow_interpolation) ==
    LET mil  == get_indicator_data(data.military)
        edu  == get_indicator_data(data.education)
        hlth == get_indicator_data(data.health)
    IN  IF no_coverage(mil, edu, hlth) THEN None
        ELSE LET df == aligned_frame(mil, edu, hlth, "Real")
             IN  tag_source(df, interpolate(df, TRUE))

\* guns_butter_plus_nextgen.py build_metrics
build_metrics(data, allow_interpolation) ==
    LET mil  == get_indicator_data(data.military)
        edu  == get_indicator_data(data.education)
        hlth == get_indicator_data(data.health)
    IN  IF no_coverage(mil, edu, hlth) THEN None
        ELSE LET df == aligned_frame(mil, edu, hlth, "Real")
             IN  IF allow_interpolation
                    THEN tag_source(df, interpolate(df, TRUE))
                    ELSE df

\* guns_butter_plus.py build_metrics
build_metrics_plus(data, interp) ==
    LET mil  == get_indicator_data(data.military)
        edu  == get_indicator_data(data.education)
        hlth == get_indicator_data(data.health)
    IN  IF no_coverage(mil, edu, hlth) THEN None
        ELSE LET df == aligned_frame(mil, edu, hlth, NoSource)
             IN  IF interp THEN interpolate(df, TRUE) ELSE df

\* guns_app.py build_country_metrics
build_country_metrics(data) ==
    LET mil  == get_indicator_data(data.military)
        edu  == get_indicator_data(data.education)
        hlth == get_indicator_data(data.health)
    IN  IF no_coverage(mil, edu, hlth) THEN None
        ELSE interpolate(aligned_frame(mil, edu, hlth, NoSource), FALSE)

(***************************************************************************)
(* Window filter, provenance filter and the fan-out into long records.     *)
(***************************************************************************)
\* df[mask]: the rows at the positions of `rows`, in their order.
take(df, rows) ==
    LET keep(i) == i \in rows
        pos == SelectSeq([i \in 1..Len(df.index) |-> i], keep)
        pick(col) == [k \in 1..Len(pos) |-> col[pos[k]]]
    IN  [df EXCEPT !.index  = pick(df.index),
                   !.cols   = [c \in NumericCols |-> pick(df.cols[c])],
                   !.Source = pick(df.Source)]

\* df[(df.index >= year_range[0]) & (df.index <= year_range[1])]
window(df, year_range) ==
    take(df, {i \in 1..Len(df.index) :
                df.index[i] >= year_range[1] /\ df.index[i] <= year_range[2]})

\* df[df["Source"] == "Real"]
only_real(df) ==
    take(df, {i \in 1..Len(df.index) : df.Source[i] = "Real"})

\* temp: one long record per row of df, for one metric.
temp(df, metric, name) ==
    [k \in 1..Len(df.index) |->
        [Year |-> df.index[k], Country |-> name, Metric |-> metric,
         Value |-> df.cols[metric][k], Source |-> df.Source[k]]]

\* pd.concat: the frames' rows, one frame after the other.
RECURSIVE concat(_)
concat(frames) ==
    IF frames = << >> THEN << >> ELSE Head(frames) \o concat(Tail(frames))

(***************************************************************************)
(* The country directory.                                                  *)
(***************************************************************************)
country_data ==
    [code \in {"US", "CN"} |->
        [name |-> IF code = "US" THEN "United States" ELSE "China"]]

all_country_codes == DOMAIN country_data

\* country_data.get(code, {}).get("name", code)
display_name(code) ==
    IF code \in DOMAIN country_data THEN country_data[code].name ELSE code

Variants == {"app", "plus", "nextgen"}

(***************************************************************************)
(* State.                                                                  *)
(***************************************************************************)
VARIABLES
    variant,              \* which of the three scripts runs
    world,                \* the provider's data: code -> indicator -> answer
    selected_codes,       \* the countries selected, in order
    year_range,           \* <<lower year, upper year>>
    metrics_selected,     \* the metrics selected, in order
    allow_interpolation,  \* "Allow Interpolation"
    show_only_real,       \* "Only Real Data"
    pc,                   \* "loop", "reshape" or "done"
    n,                    \* position in selected_codes of the current code
    df,                   \* the script's df
    data_list,            \* the temp frames appended so far
    chart_df              \* the long table

vars == <<variant, world, selected_codes, year_range, metrics_selected,
          allow_interpolation, show_only_real, pc, n, df, data_list, chart_df>>

controls == <<variant, world, selected_codes, year_range, metrics_selected,
              allow_interpolation, show_only_real>>

code == selected_codes[n]

\* df = build_metrics(code, ...) in the script that runs.
built(c) ==
    CASE variant = "nextgen" -> build_metrics(world[c], allow_interpolation)
      [] variant = "plus"    -> build_metrics_plus(world[c], allow_interpolation)
      [] variant = "app"     -> build_country_metrics(world[c])

\* The frame the fan-out reads: cut to the window and, in the script that
\* has the checkbox, to the rows tagged "Real".
filtered(frame) ==
    LET w == window(frame, year_range)
    IN  IF variant = "nextgen" /\ show_only_real THEN only_real(w) ELSE w

\* The temp frames of one country: one per selected metric.
fan_out(frame, name) ==
    [m \in 1..Len(metrics_selected) |-> temp(frame, metrics_selected[m], name)]

\* for code in selected: df = build_metrics(code); if df is None: continue
Build ==
    /\ pc = "loop"
    /\ n <= Len(selected_codes)
    /\ df' = built(code)
    /\ IF df'.kind = "None"
          THEN pc' = "loop" /\ n' = n + 1
          ELSE pc' = "reshape" /\ n' = n
    /\ UNCHANGED <<controls, data_list, chart_df>>

\* The rest of the loop body: filter df, append one temp frame per metric.
Reshape ==
    /\ pc = "reshape"
    /\ df' = filtered(df)
    /\ data_list' = data_list \o fan_out(df', display_name(code))
    /\ pc' = "loop"
    /\ n' = n + 1
    /\ UNCHANGED <<controls, chart_df>>

\* After the loop: chart_df = pd.concat(data_list) if there is any frame.
Concat ==
    /\ pc = "loop"
    /\ n > Len(selected_codes)
    /\ chart_df' = IF data_list # << >> THEN concat(data_list) ELSE << >>
    /\ pc' = "done"
    /\ UNCHANGED <<controls, n, df, data_list>>

Next == Build \/ Reshape \/ Concat

\* The only notice of missing data any script gives: the nextgen script
\* warns "No data available for the selected options." when countries are
\* selected and the whole long table is empty.  It names no country.
no_data_warning ==
    pc = "done" /\ variant = "nextgen" /\ chart_df = << >> /\ selected_codes # << >>

(***************************************************************************)
(* The provider's data.                                                    *)
(***************************************************************************)
Null == NaN

NoAnswers ==
    [military |-> ErrorResponse, education |-> ErrorResponse, health |-> ErrorResponse]

\* An answer listing every year: the k-th year holds s[k], later years null.
Listed(s) ==
    Response([y \in Years |->
                IF y - YearBase + 1 <= Len(s) THEN s[y - YearBase + 1] ELSE Null])

Answers(m, e, h) ==
    [military |-> Listed(m), education |-> Listed(e), health |-> Listed(h)]

\* Military = {2000: 2.0, 2002: 3.0}, Education = {2000: 4.0, 2001: 4.5,
\* 2002: 5.0}, Health = {2000: 1.0, 2001: 1.0, 2002: 1.0}.
GapInMilitary ==
    Answers(<<Num(2), Null, Num(3)>>, <<Num(4), Frac(9, 2), Num(5)>>,
            <<Num(1), Num(1), Num(1)>>)

\* No education observation at all.
NoEducation ==
    Answers(<<Num(1), Num(1), Num(1)>>, <<Null, Null, Null>>,
            <<Num(1), Num(1), Num(1)>>)

\* Education + Health = 0 in 2000 (Military 1) and in 2002 (Military 0).
ZeroButter ==
    Answers(<<Num(1), Num(1), Num(0)>>, <<Num(0), Num(1), Num(0)>>,
            <<Num(0), Num(1), Num(0)>>)

\* Military observed in 2001 only; Education has a gap in 2001.
LoneMilitary ==
    Answers(<<Null, Num(1), Null>>, <<Num(1), Null, Num(3)>>,
            <<Num(1), Num(1), Num(1)>>)

Catalogue == {GapInMilitary, NoEducation, ZeroButter, LoneMilitary, NoAnswers}

\* The amounts (or null) a year of an answer holds in the exhaustive data.
MilitaryAmounts == {Null, Num(0), Num(1)}

EducationAmounts == {Null, Num(0), Num(1)}

HealthAmounts == {Null, Num(0)}

(***************************************************************************)
(* Initial states.                                                         *)
(***************************************************************************)
FullRange == <<YearBase, YearBase + NumYears - 1>>

AllMetrics == <<"Military", "Butter", "G/B Ratio">>

\* The controls a script offers: guns_app.py always interpolates and only
\* the nextgen script has "Only Real Data".
ControlsOk ==
    /\ variant \in Variants
    /\ allow_interpolation \in (IF variant = "app" THEN {TRUE} ELSE BOOLEAN)
    /\ show_only_real \in (IF variant = "nextgen" THEN BOOLEAN ELSE {FALSE})

Start ==
    /\ pc = "loop"
    /\ n = 1
    /\ df = None
    /\ data_list = << >>
    /\ chart_df = << >>

\* One country with data d, the whole range and every metric.
Single(d) ==
    /\ world = [c \in all_country_codes |-> IF c = "US" THEN d ELSE NoAnswers]
    /\ selected_codes = <<"US">>
    /\ year_range = FullRange
    /\ metrics_selected = AllMetrics
    /\ Start

\* The selections of the loop: every order of every set of codes.
Selections ==
    {<< >>, <<"US">>, <<"CN">>, <<"US", "CN">>, <<"CN", "US">>}

Windows == {w \in Years \X Years : w[1] <= w[2]}

MetricChoices ==
    {<< >>, <<"G/B Ratio">>, <<"Butter", "Military">>, AllMetrics}

\* The whole pipeline over catalogue data: any script, selection, window,
\* metrics and checkboxes.
Init ==
    /\ ControlsOk
    /\ world \in [all_country_codes -> Catalogue]
    /\ selected_codes \in Selections
    /\ year_range \in Windows
    /\ metrics_selected \in MetricChoices
    /\ Start

Spec == Init /\ [][Next]_vars

\* One country whose data are any answers over Years with the amounts
\* above, or any data set of the catalogue.
SingleSmall ==
    \/ \E m \in [Years -> MilitaryAmounts], e \in [Years -> EducationAmounts],
          h \in [Years -> HealthAmounts] :
             Single([military |-> Response(m), education |-> Response(e),
                     health |-> Response(h)])
    \/ \E d \in Catalogue : Single(d)

\* The build step alone, over every small data set.
InitBuild ==
    /\ ControlsOk
    /\ show_only_real = FALSE
    /\ SingleSmall

SpecBuild == InitBuild /\ [][Build]_vars

\* The nextgen script with interpolation on, over every small data set.
InitTagged ==
    /\ variant = "nextgen"
    /\ allow_interpolation = TRUE
    /\ show_only_real \in BOOLEAN
    /\ SingleSmall

\* The loop body of one country: build, then filter and fan out.
Body == Build \/ Reshape

SpecTagged == InitTagged /\ [][Body]_vars

(***************************************************************************)
(* What the provider's data say, read off the answers themselves.          *)
(***************************************************************************)
Indicator(col) ==
    CASE col = "Military"  -> "military"
      [] col = "Education" -> "education"
      [] col = "Health"    -> "health"

SourceCols == {"Military", "Education", "Health"}

\* The years for which the provider holds a value of column col of country c.
ObservedYears(c, col) ==
    LET res == world[c][Indicator(col)]
    IN  IF res.len < 2 THEN {} ELSE {y \in DOMAIN res.data : res.data[y] # Null}

Observation(c, col, y) == world[c][Indicator(col)].data[y]

Coverage(c) == \A col \in SourceCols : ObservedYears(c, col) # {}

\* The value of a column at year y before any interpolation (NaN if none).
Before(c, col, y) ==
    LET at(k) == IF y \in ObservedYears(c, k) THEN Observation(c, k, y) ELSE NaN
        butter == fadd(at("Education"), at("Health"))
    IN  CASE col \in SourceCols -> at(col)
          [] col = "Butter"     -> butter
          [] col = "G/B Ratio"  -> fdiv(at("Military"), butter)

\* Column col has no value at y before interpolation and has one both at
\* an earlier and at a later year.
FilledAt(c, col, y) ==
    /\ isna(Before(c, col, y))
    /\ \E a \in Years : a < y /\ notna(Before(c, col, a))
    /\ \E b \in Years : b > y /\ notna(Before(c, col, b))

\* The years of the rows of a frame, and the value of a column at a year.
RowOf(frame, y) == CHOOSE i \in 1..Len(frame.index) : frame.index[i] = y

HasRow(frame, y) == \E i \in 1..Len(frame.index) : frame.index[i] = y

At(frame, col, y) ==
    IF HasRow(frame, y) THEN frame.cols[col][RowOf(frame, y)] ELSE NaN

\* A frame has just been built for the current code.
JustBuilt == pc = "reshape"

Interpolating == variant = "app" \/ allow_interpolation

(***************************************************************************)
(* C1.  After interpolation no column holds a value at a year before its   *)
(* first or after its last year with a value before interpolation: only    *)
(* gaps between two observations are filled.  (Stated for all three        *)
(* scripts, as the claim is.)                                              *)
(***************************************************************************)
WithinObserved(c, frame) ==
    \A col \in NumericCols : \A y \in Years :
        notna(At(frame, col, y)) =>
            /\ \E a \in Years : a <= y /\ notna(Before(c, col, a))
            /\ \E b \in Years : b >= y /\ notna(Before(c, col, b))

C1_NoExtrapolation ==
    (JustBuilt /\ Interpolating) => WithinObserved(code, df)

\* The same for the two scripts that pass limit_area="inside".
C1_NoExtrapolationInside ==
    (JustBuilt /\ Interpolating /\ variant # "app") => WithinObserved(code, df)

(***************************************************************************)
(* C2.  In the frame build_metrics returns with interpolation enabled,     *)
(* wherever Military, Education and Health are all defined, Butter is      *)
(* Education + Health and G/B Ratio is Military / Butter.  (Rows whose     *)
(* Butter is zero are left to C3.)                                         *)
(***************************************************************************)
C2_DerivedRecomputed ==
    (JustBuilt /\ variant # "app" /\ allow_interpolation) =>
        \A i \in 1..Len(df.index) :
            (\A col \in SourceCols : notna(df.cols[col][i])) =>
                /\ df.cols["Butter"][i] =
                       fadd(df.cols["Education"][i], df.cols["Health"][i])
                /\ df.cols["Butter"][i] # Num(0) =>
                       df.cols["G/B Ratio"][i] =
                           fdiv(df.cols["Military"][i], df.cols["Butter"][i])

(***************************************************************************)
(* C3.  Wherever Butter is zero or not-a-number in a country frame, the    *)
(* G/B Ratio of that year is not-a-number (never zero, never infinite).    *)
(***************************************************************************)
C3_DegenerateRatioIsNaN ==
    JustBuilt =>
        \A i \in 1..Len(df.index) :
            (isna(df.cols["Butter"][i]) \/ df.cols["Butter"][i] = Num(0)) =>
                isna(df.cols["G/B Ratio"][i])

(***************************************************************************)
(* C4.  In the nextgen frame a row is tagged "Real" only if military,      *)
(* education and health all have an observation at that year.              *)
(***************************************************************************)
C4_RealOnlyIfAllObserved ==
    (JustBuilt /\ variant = "nextgen") =>
        \A i \in 1..Len(df.index) :
            df.Source[i] = "Real" =>
                \A col \in SourceCols : df.index[i] \in ObservedYears(code, col)

\* C4, amended.  A row of the nextgen frame is tagged "Real" only if no
\* indicator was filled by interpolation at that year: each of military,
\* education and health has an observation there, or has none and the
\* year is not strictly between two of its observed years, or
\* interpolation is disabled.
C4_RealOnlyIfNothingFilled ==
    (JustBuilt /\ variant = "nextgen") =>
        \A i \in 1..Len(df.index) :
            df.Source[i] = "Real" =>
                \A col \in SourceCols :
                    \/ df.index[i] \in ObservedYears(code, col)
                    \/ ~allow_interpolation
                    \/ ~FilledAt(code, col, df.index[i])

\* With interpolation on, one row is "Real" although an indicator has no
\* observation at its year, and another row is "Interpolated".
C4_Witness ==
    /\ JustBuilt /\ variant = "nextgen" /\ allow_interpolation
    /\ \E i \in 1..Len(df.index) :
          /\ df.Source[i] = "Real"
          /\ \E col \in SourceCols : df.index[i] \notin ObservedYears(code, col)
    /\ \E i \in 1..Len(df.index) : df.Source[i] = "Interpolated"

(***************************************************************************)
(* C8.  With interpolation disabled the frame holds exactly the observed   *)
(* values: Military, Education and Health are defined at a year if and     *)
(* only if the provider has an observation there, and then equal it, so    *)
(* each column has as many values as there are observations; and every     *)
(* row of the nextgen frame is tagged "Real".                              *)
(***************************************************************************)
DefinedYears(frame, col) == {y \in Years : notna(At(frame, col, y))}

C8_ObservedOnlyWithoutInterpolation ==
    (JustBuilt /\ ~Interpolating) =>
        /\ \A col \in SourceCols :
              /\ DefinedYears(df, col) = ObservedYears(code, col)
              /\ \A y \in ObservedYears(code, col) :
                    At(df, col, y) = Observation(code, col, y)
              /\ Cardinality({i \in 1..Len(df.index) : notna(df.cols[col][i])})
                    = Cardinality(ObservedYears(code, col))
        /\ variant = "nextgen" =>
              \A i \in 1..Len(df.index) : df.Source[i] = "Real"

\* Interpolation is off and some column has a gap between two observations.
C8_Witness ==
    /\ JustBuilt /\ ~Interpolating /\ variant = "nextgen"
    /\ \E col \in SourceCols : \E a, y, b \in Years :
          /\ a < y /\ y < b
          /\ {a, b} \subseteq ObservedYears(code, col)
          /\ y \notin ObservedYears(code, col)
          /\ HasRow(df, y)

(***************************************************************************)
(* C10.  The year index of a built frame is the union of the years of the  *)
(* three series, strictly ascending; a year present in only some of the    *)
(* series has a row, whose missing columns are not-a-number before any     *)
(* interpolation.                                                          *)
(***************************************************************************)
UnionYears(c) == UNION {ObservedYears(c, col) : col \in SourceCols}

C10_IndexIsSortedUnion ==
    JustBuilt =>
        /\ {df.index[i] : i \in 1..Len(df.index)} = UnionYears(code)
        /\ \A i, j \in 1..Len(df.index) : i < j => df.index[i] < df.index[j]
        /\ \A col \in NumericCols : Len(df.cols[col]) = Len(df.index)
        /\ ~Interpolating =>
              \A col \in SourceCols : \A y \in UnionYears(code) :
                  y \notin ObservedYears(code, col) => isna(At(df, col, y))

\* A year that only some of the three series have.
C10_Witness ==
    /\ JustBuilt
    /\ \E y \in UnionYears(code) : \E col \in SourceCols :
          y \notin ObservedYears(code, col)
    /\ \E a, b \in UnionYears(code) : \E col \in SourceCols :
          a < b /\ b \in ObservedYears(code, col) /\ a \notin ObservedYears(code, col)

(***************************************************************************)
(* The long table, read by country.                                        *)
(***************************************************************************)
RowsFor(table, name) ==
    LET mine(r) == r.Country = name IN SelectSeq(table, mine)

\* What a country contributes when it is the only one selected.
Alone(c) == concat(fan_out(filtered(built(c)), display_name(c)))

Selected == {selected_codes[k] : k \in 1..Len(selected_codes)}

\* Every long record appended so far.
Emitted ==
    UNION {{data_list[t][k] : k \in 1..Len(data_list[t])} : t \in 1..Len(data_list)}

(***************************************************************************)
(* C5.  After the loop every selected country that contributed no long     *)
(* record is reported as missing in the pipeline's result.  The scripts    *)
(* keep no list of missing codes; the formula accepts the nextgen warning  *)
(* as the report.                                                          *)
(***************************************************************************)
C5_ZeroRowCountriesReported ==
    pc = "done" =>
        \A c \in Selected :
            RowsFor(chart_df, display_name(c)) = << >> => no_data_warning

(***************************************************************************)
(* C6.  All-or-nothing coverage: a frame is built only for a country whose *)
(* three series are all non-empty; a country with an empty series          *)
(* contributes no row, and every other selected country contributes        *)
(* exactly the rows it contributes when selected alone, in any order.      *)
(***************************************************************************)
C6_AllOrNothingCoverage ==
    /\ pc = "reshape" => Coverage(code)
    /\ pc = "done" =>
          \A c \in Selected :
              RowsFor(chart_df, display_name(c)) =
                  IF Coverage(c) THEN Alone(c) ELSE << >>

\* A country with military and health data but no education is skipped,
\* and the country selected after it contributes its rows.
C6_Witness ==
    /\ pc = "done"
    /\ Len(selected_codes) = 2
    /\ ~Coverage(selected_codes[1])
    /\ ObservedYears(selected_codes[1], "Military") # {}
    /\ Coverage(selected_codes[2])
    /\ RowsFor(chart_df, display_name(selected_codes[2])) # << >>

(***************************************************************************)
(* C7.  The long table holds, for every selected country with coverage,    *)
(* selected metric and year of the window, exactly one row if the metric   *)
(* has a defined value at that year in the country's frame and no row if   *)
(* it is not-a-number; no row carries an undefined Value.                  *)
(***************************************************************************)
RowCount(c, metric, y) ==
    Cardinality({k \in 1..Len(chart_df) :
                    /\ chart_df[k].Country = display_name(c)
                    /\ chart_df[k].Metric = metric
                    /\ chart_df[k].Year = y})

C7_OneRowPerDefinedValue ==
    pc = "done" =>
        /\ \A k \in 1..Len(chart_df) : notna(chart_df[k].Value)
        /\ \A c \in Selected : \A m \in 1..Len(metrics_selected) :
              \A y \in year_range[1]..year_range[2] :
                  Coverage(c) =>
                      RowCount(c, metrics_selected[m], y) =
                          IF notna(At(built(c), metrics_selected[m], y)) THEN 1 ELSE 0

(***************************************************************************)
(* C9.  In the nextgen script, if any of Military, Education, Health,      *)
(* Butter or G/B Ratio was filled by interpolation at a year, every long   *)
(* record of that year is tagged "Interpolated", whatever its metric; and  *)
(* with "Only Real Data" no record of such a year is emitted, so every     *)
(* emitted Value is the value before interpolation.                        *)
(***************************************************************************)
C9_SynthesizedRowsTaggedAndExcluded ==
    (variant = "nextgen" /\ allow_interpolation) =>
        \A c \in Selected : \A y \in {r.Year : r \in Emitted} :
            LET filled == \E col \in NumericCols : FilledAt(c, col, y)
            IN  \A r \in Emitted :
                    (r.Country = display_name(c) /\ r.Year = y) =>
                        /\ filled => r.Source = "Interpolated"
                        /\ show_only_real =>
                              ~filled /\ r.Value = Before(c, r.Metric, y)

\* "Only Real Data" is set, Military was filled at a year where Education
\* and Health are observed, and the records of the other years are out
\* while that year has none.
C9_Witness ==
    /\ variant = "nextgen" /\ allow_interpolation /\ show_only_real
    /\ pc = "loop" /\ n = 2
    /\ Emitted # {}
    /\ \E y \in Years :
          /\ FilledAt("US", "Military", y)
          /\ y \in ObservedYears("US", "Education")
          /\ y \in ObservedYears("US", "Health")
          /\ \A r \in Emitted : r.Year # y

====
